---- MODULE Spec2Model ----
(***************************************************************************)
(* Model of lightraildev/create_isochrones.py: the pipeline that annotates *)
(* the MAX stops dataset, creates the isochrone feature class, runs the    *)
(* service area solver and copies stop attributes onto the isochrones.     *)
(*                                                                         *)
(* Datasets are sequences of rows in cursor order.  Text that the script   *)
(* formats, splits, strips or parses is a sequence of one-character        *)
(* strings.  A point geometry is abstracted to the object id of the zone   *)
(* polygon nearest to it, which is all that GenerateNearTable reads.       *)
(***************************************************************************)
EXTENDS Integers, Sequences, FiniteSets, TLC

(* ---------------------------- bounds ----------------------------------- *)

MaxStops == 2
MaxCalls == 2

(* ------------------------- program constants --------------------------- *)

None == 0

walk_distance == 2640

BreakValues == {walk_distance, 3300}

StopIds == {7, 13}

MaxLines == {"MAX Blue Line", "MAX Red Line", "MAX Yellow Line",
             "MAX Green Line", "MAX Orange Line"}

RouteNames == MaxLines \cup {"WES Commuter Rail"}

ZoneRows == <<"Central Business District", "West Suburbs",
              "Southwest Portland", "Eastside">>

ZoneOids == 1..Len(ZoneRows)

Whitespace == {" ", "\t"}

RouteDescs == { {"MAX Blue Line", "MAX Red Line"}, {"MAX Yellow Line"},
                {"WES Commuter Rail"} }

DigitChars == <<"0", "1", "2", "3", "4", "5", "6", "7", "8", "9">>

Separator == <<" ", ":", " ", "0", " ", "-", " ">>

\* main with the dataset created after the solver has run
main_createLate == <<"add_name_field", "assign_max_zones",
                     "add_inception_year", "generate_isochrones",
                     "create_isochrone_fc", "add_iso_attributes",
                     "get_iso_area">>

main == <<"add_name_field", "assign_max_zones", "add_inception_year",
          "create_isochrone_fc", "generate_isochrones",
          "add_iso_attributes", "get_iso_area">>

(* ------------------------------ state ---------------------------------- *)

VARIABLES
    pc,                 \* the stage main is about to run, "done" or "exited"
    trace,              \* the stages executed so far, in order
    max_stops,          \* rows of max_stops.shp
    stop_fields,        \* field names of max_stops.shp
    final_isochrones,   \* rows of max_stop_isochrones.shp
    iso_fields,         \* field names of max_stop_isochrones.shp
    iso_exists,         \* whether max_stop_isochrones.shp has been created
    service_area_layer, \* module global, None until create_service_area
    sa_facilities,      \* module global
    sa_isochrones,      \* module global
    na_layer,           \* contents of the network analyst layer
    sa_created,         \* number of executions of create_service_area
    calls,              \* number of executions of generate_isochrones
    last_call,          \* arguments of the latest generate_isochrones call
    exited_at           \* cursor position at which sys.exit ran, 0 if none

vars == <<pc, trace, max_stops, stop_fields, final_isochrones, iso_fields,
          iso_exists, service_area_layer, sa_facilities, sa_isochrones,
          na_layer, sa_created, calls, last_call, exited_at>>

stop_vars == <<max_stops, stop_fields>>
iso_vars == <<final_isochrones, iso_fields, iso_exists>>
sa_vars == <<service_area_layer, sa_facilities, sa_isochrones, na_layer,
             sa_created, calls, last_call>>

(* ----------------------------- helpers --------------------------------- *)

\* str() of a non-negative integer, as the solver writes facility names and
\* break values into a polygon's name
RECURSIVE ToStr(_)
ToStr(n) ==
    IF n < 10 THEN <<DigitChars[n + 1]>>
    ELSE ToStr(n \div 10) \o <<DigitChars[(n % 10) + 1]>>

\* int() of a string of decimal digits; -1 stands for ValueError
RECURSIVE ParseInt(_)
ParseInt(s) ==
    IF s = <<>> \/ \E i \in 1..Len(s) : \A d \in 1..10 : DigitChars[d] # s[i]
    THEN -1
    ELSE LET last == (CHOOSE d \in 1..10 : DigitChars[d] = s[Len(s)]) - 1
         IN  IF Len(s) = 1 THEN last
             ELSE 10 * ParseInt(SubSeq(s, 1, Len(s) - 1)) + last

\* re.split(sep, s) for a literal pattern
RECURSIVE ReSplit(_, _)
ReSplit(sep, s) ==
    LET hits == {i \in 1..(Len(s) - Len(sep) + 1) :
                     SubSeq(s, i, i + Len(sep) - 1) = sep}
    IN  IF hits = {} THEN <<s>>
        ELSE LET i == CHOOSE h \in hits : \A g \in hits : h <= g
             IN  <<SubSeq(s, 1, i - 1)>>
                     \o ReSplit(sep, SubSeq(s, i + Len(sep), Len(s)))

\* str.strip()
RECURSIVE Strip(_)
Strip(s) ==
    IF s = <<>> THEN s
    ELSE IF s[1] \in Whitespace THEN Strip(Tail(s))
    ELSE IF s[Len(s)] \in Whitespace THEN Strip(SubSeq(s, 1, Len(s) - 1))
    ELSE s

\* sequences over S of length lo..hi
SeqsOf(S, lo, hi) == UNION {[1..n -> S] : n \in lo..hi}

\* the stage main runs after the given one
After(stage) ==
    LET i == CHOOSE k \in 1..Len(main) : main[k] = stage
    IN  IF i = Len(main) THEN "done" ELSE main[i + 1]

(* ------------------------------- Init ---------------------------------- *)

StopRow(id, nm, rts, rd, shp) ==
    [stop_id |-> id, stop_name |-> nm, routes |-> rts, route_desc |-> rd,
     Shape |-> shp, name |-> 0, max_zone |-> "", incpt_year |-> 0]

EmptyLayer == [facilities |-> <<>>, defaultBreaks |-> 0, polygons |-> <<>>]

NoCall == [locations |-> <<>>, break_value |-> 0, before |-> <<>>]

InitRest ==
    /\ pc = main[1]
    /\ trace = <<>>
    /\ stop_fields = {"Shape", "stop_id", "stop_name", "routes", "route_desc"}
    /\ final_isochrones = <<>>
    /\ iso_fields = {}
    /\ iso_exists = FALSE
    /\ service_area_layer = None
    /\ sa_facilities = "None"
    /\ sa_isochrones = "None"
    /\ na_layer = EmptyLayer
    /\ sa_created = 0
    /\ calls = 0
    /\ last_call = NoCall
    /\ exited_at = 0

\* what identifies a stop to a reader: its name and its routes text
StopLabels == { <<"Gateway TC", <<"9", "0">> >>,
                <<"Pioneer Sq", <<" ", "9", "0", " ", "1", "\t", " ">> >> }

\* stops of a pipeline run: stop ids may repeat
InitStops ==
    { StopRow(id, lb[1], lb[2], rd, shp) :
        id \in StopIds, lb \in StopLabels, rd \in RouteDescs, shp \in {1, 4} }

Init ==
    /\ max_stops \in SeqsOf(InitStops, 1, MaxStops)
    /\ InitRest

\* one stop, every combination of routes, every zone
InitYearStops ==
    { StopRow(7, "Gateway TC", <<"9", "0">>, rd, shp) :
        rd \in SUBSET RouteNames, shp \in ZoneOids }

InitYear ==
    /\ max_stops \in SeqsOf(InitYearStops, 1, 1)
    /\ InitRest

\* stops of a run that solves one walk group at a time
InitGroupStops ==
    { StopRow(id, "Gateway TC", <<"9", "0">>, {"MAX Blue Line"}, shp) :
        id \in StopIds, shp \in {1, 4} }

InitGroups ==
    /\ max_stops \in SeqsOf(InitGroupStops, 1, MaxStops)
    /\ InitRest

(* ------------------------------ actions -------------------------------- *)

Advance ==
    /\ pc' = After(pc)
    /\ trace' = Append(trace, pc)

\* add_name_field with the assignment 'name = stop_id' left out
NamedRow_unassigned(row) == row

\* the row the update cursor of add_name_field writes back
NamedRow(row) == [row EXCEPT !.name = row.stop_id]

add_name_field ==
    /\ pc = "add_name_field"
    /\ stop_fields' = stop_fields \cup {"name"}
    /\ max_stops' = [i \in 1..Len(max_stops) |-> NamedRow(max_stops[i])]
    /\ Advance
    /\ UNCHANGED <<iso_vars, sa_vars, exited_at>>

\* GenerateNearTable: IN_FID -> NEAR_FID, the zone nearest to each stop
GenerateNearTable(stops) == [oid \in 1..Len(stops) |-> stops[oid].Shape]

assign_max_zones ==
    /\ pc = "assign_max_zones"
    /\ LET max_zone_dict == [oid \in ZoneOids |-> ZoneRows[oid]]
           stop2zone_dict == GenerateNearTable(max_stops)
       IN  max_stops' = [oid \in 1..Len(max_stops) |->
               [max_stops[oid] EXCEPT
                    !.max_zone = max_zone_dict[stop2zone_dict[oid]]]]
    /\ stop_fields' = stop_fields \cup {"max_zone"}
    /\ Advance
    /\ UNCHANGED <<iso_vars, sa_vars, exited_at>>

\* the chain without its last branch
InceptionYear_noOrange(rte_desc, zone) ==
    IF "MAX Blue Line" \in rte_desc
           /\ zone \notin {"West Suburbs", "Southwest Portland"} THEN 1980
    ELSE IF "MAX Blue Line" \in rte_desc THEN 1990
    ELSE IF "MAX Red Line" \in rte_desc THEN 1997
    ELSE IF "MAX Yellow Line" \in rte_desc
           /\ zone # "Central Business District" THEN 1999
    ELSE IF "MAX Green Line" \in rte_desc THEN 2003
    ELSE 0

\* the chain with the Red and Yellow branches in the other order
InceptionYear_yellowFirst(rte_desc, zone) ==
    IF "MAX Blue Line" \in rte_desc
           /\ zone \notin {"West Suburbs", "Southwest Portland"} THEN 1980
    ELSE IF "MAX Blue Line" \in rte_desc THEN 1990
    ELSE IF "MAX Yellow Line" \in rte_desc
           /\ zone # "Central Business District" THEN 1999
    ELSE IF "MAX Red Line" \in rte_desc THEN 1997
    ELSE IF "MAX Green Line" \in rte_desc THEN 2003
    ELSE IF "MAX Orange Line" \in rte_desc THEN 2008
    ELSE 0

\* the if/elif chain of add_inception_year; 0 stands for the else branch,
\* where no year is assigned
InceptionYear(rte_desc, zone) ==
    IF "MAX Blue Line" \in rte_desc
           /\ zone \notin {"West Suburbs", "Southwest Portland"} THEN 1980
    ELSE IF "MAX Blue Line" \in rte_desc THEN 1990
    ELSE IF "MAX Red Line" \in rte_desc THEN 1997
    ELSE IF "MAX Yellow Line" \in rte_desc
           /\ zone # "Central Business District" THEN 1999
    ELSE IF "MAX Green Line" \in rte_desc THEN 2003
    ELSE IF "MAX Orange Line" \in rte_desc THEN 2008
    ELSE 0

\* position of the first row on which the cursor loop exits, 0 if none
ExitRow(rows) ==
    LET bad == {i \in 1..Len(rows) :
                   InceptionYear(rows[i].route_desc, rows[i].max_zone) = 0}
    IN  IF bad = {} THEN 0 ELSE CHOOSE i \in bad : \A j \in bad : i <= j

\* the loop with sys.exit left out: the run goes on
AfterYears_noExit(stop) == After("add_inception_year")

\* where control goes when the cursor loop ends: sys.exit ends the run
AfterYears(stop) == IF stop = 0 THEN After("add_inception_year") ELSE "exited"

add_inception_year ==
    /\ pc = "add_inception_year"
    /\ stop_fields' = stop_fields \cup {"incpt_year"}
    /\ LET stop == ExitRow(max_stops)
       IN  /\ max_stops' = [i \in 1..Len(max_stops) |->
                  IF stop = 0 \/ i < stop
                  THEN [max_stops[i] EXCEPT !.incpt_year =
                            InceptionYear(max_stops[i].route_desc,
                                          max_stops[i].max_zone)]
                  ELSE max_stops[i]]
           /\ exited_at' = stop
           /\ pc' = AfterYears(stop)
    /\ trace' = Append(trace, pc)
    /\ UNCHANGED <<iso_vars, sa_vars>>

create_isochrone_fc ==
    /\ pc = "create_isochrone_fc"
    /\ iso_exists' = TRUE
    /\ final_isochrones' = <<>>
    /\ iso_fields' = ({"Shape", "Id"} \cup {"stop_id", "stop_name", "routes",
                          "max_zone", "incpt_year", "walk_dist"}) \ {"Id"}
    /\ Advance
    /\ UNCHANGED <<stop_vars, sa_vars, exited_at>>

\* the subsequence of s at the positions in idx
RECURSIVE Pick(_, _)
Pick(s, idx) ==
    IF s = <<>> THEN <<>>
    ELSE Pick(SubSeq(s, 1, Len(s) - 1), idx)
             \o (IF Len(s) \in idx THEN <<s[Len(s)]>> ELSE <<>>)

\* create_walk_groups: the stops whose zone is (or, inverted, is not) one
\* of the given zones
create_walk_groups(zones, inverse) ==
    SelectSeq(max_stops, LAMBDA row : (row.max_zone \in zones) # inverse)

ZoneGroups == {{"Central Business District"}}

\* the guard left out: every call configures a layer
NoServiceArea_always(layer) == TRUE

\* the guard of generate_isochrones: 'not service_area_layer'
NoServiceArea(layer) == layer = None

NAClassNames == [Facilities |-> "Facilities", SAPolygons |-> "Polygons"]

\* AddLocations with append='APPEND': earlier facilities stay
AddLocations_append(facilities, locations) ==
    facilities \o [i \in 1..Len(locations) |->
        [Name |-> ToStr(locations[i].name), Shape |-> locations[i].Shape]]

\* AddLocations with append='CLEAR': the facilities sublayer afterwards;
\* a facility keeps the 'name' field as text, and its position
AddLocations(facilities, locations) ==
    [i \in 1..Len(locations) |->
        [Name |-> ToStr(locations[i].name), Shape |-> locations[i].Shape]]

\* Solve: one polygon for each facility the solver could locate, named
\* '<facility name> : 0 - <break>' and carrying the facility's number
Solve(facilities, breaks, located) ==
    LET found == Pick([i \in 1..Len(facilities) |-> i], located)
    IN  [k \in 1..Len(found) |->
            [FacilityID |-> found[k],
             Shape |-> [around |-> facilities[found[k]].Shape,
                        dist |-> breaks],
             name |-> facilities[found[k]].Name \o Separator
                          \o ToStr(breaks)]]

\* the two parts of the name taken in the other order
IsoRow_swapped(geom, output_name) ==
    LET iso_attributes == ReSplit(Separator, output_name)
        stop_id == ParseInt(iso_attributes[2])
        break_value == ParseInt(iso_attributes[1])
    IN  [Shape |-> geom, stop_id |-> stop_id, walk_dist |-> break_value,
         stop_name |-> "", routes |-> <<>>, max_zone |-> "",
         incpt_year |-> 0, area |-> 0]

\* the row generate_isochrones inserts for one polygon
IsoRow(geom, output_name) ==
    LET iso_attributes == ReSplit(Separator, output_name)
        stop_id == ParseInt(iso_attributes[1])
        break_value == ParseInt(iso_attributes[2])
    IN  [Shape |-> geom, stop_id |-> stop_id, walk_dist |-> break_value,
         stop_name |-> "", routes |-> <<>>, max_zone |-> "",
         incpt_year |-> 0, area |-> 0]

generate_isochrones(locations, break_value) ==
    LET create == NoServiceArea(service_area_layer)
        layer == IF create THEN EmptyLayer ELSE na_layer
        facilities == AddLocations(layer.facilities, locations)
    IN  \E located \in SUBSET (1..Len(facilities)) :
          LET polygons == Solve(facilities, break_value, located)
          IN  /\ service_area_layer' =
                     IF create THEN sa_created + 1 ELSE service_area_layer
              /\ sa_facilities' =
                     IF create THEN NAClassNames.Facilities ELSE sa_facilities
              /\ sa_isochrones' =
                     IF create THEN NAClassNames.SAPolygons ELSE sa_isochrones
              /\ sa_created' = IF create THEN sa_created + 1 ELSE sa_created
              /\ na_layer' = [facilities |-> facilities,
                              defaultBreaks |-> break_value,
                              polygons |-> polygons]
              /\ final_isochrones' = final_isochrones \o
                     [i \in 1..Len(polygons) |->
                         IsoRow(polygons[i].Shape, polygons[i].name)]
              /\ calls' = calls + 1
              /\ last_call' = [locations |-> locations,
                               break_value |-> break_value,
                               before |-> final_isochrones]
              /\ UNCHANGED <<stop_vars, iso_fields, iso_exists, exited_at>>

\* main's single call
main_generate ==
    /\ pc = "generate_isochrones"
    /\ generate_isochrones(max_stops, walk_distance)
    /\ Advance

\* a run that solves the walk groups by separate executions
group_generate ==
    /\ pc = "generate_isochrones"
    /\ calls < MaxCalls
    /\ \E zones \in ZoneGroups, inverse \in BOOLEAN, bv \in BreakValues :
           generate_isochrones(create_walk_groups(zones, inverse), bv)
    /\ trace' = Append(trace, pc)
    /\ pc' \in {pc, After(pc)}

\* the tuple without routes.strip()
StopAttributes_unstripped(row) ==
    [stop_id |-> row.stop_id, stop_name |-> row.stop_name,
     routes |-> row.routes, max_zone |-> row.max_zone,
     incpt_year |-> row.incpt_year]

\* the tuple add_iso_attributes stores for a stop
StopAttributes(row) ==
    [stop_id |-> row.stop_id, stop_name |-> row.stop_name,
     routes |-> Strip(row.routes), max_zone |-> row.max_zone,
     incpt_year |-> row.incpt_year]

\* rail_stop_dict: a later row of max_stops replaces an earlier one with
\* the same stop_id
RailStopDict(rows) ==
    [id \in {rows[i].stop_id : i \in 1..Len(rows)} |->
        LET last == CHOOSE i \in 1..Len(rows) :
                        /\ rows[i].stop_id = id
                        /\ \A j \in 1..Len(rows) :
                               rows[j].stop_id = id => j <= i
        IN  StopAttributes(rows[last])]

add_iso_attributes ==
    /\ pc = "add_iso_attributes"
    /\ LET rail_stop_dict == RailStopDict(max_stops)
           missing == {i \in 1..Len(final_isochrones) :
                          final_isochrones[i].stop_id
                              \notin DOMAIN rail_stop_dict}
           \* a KeyError ends the loop at the first row it is raised on
           upto == IF missing = {} THEN Len(final_isochrones)
                   ELSE (CHOOSE i \in missing : \A j \in missing : i <= j) - 1
       IN  /\ final_isochrones' = [i \in 1..Len(final_isochrones) |->
                  IF i <= upto
                  THEN LET new == rail_stop_dict[final_isochrones[i].stop_id]
                       IN  [final_isochrones[i] EXCEPT
                               !.stop_id = new.stop_id,
                               !.stop_name = new.stop_name,
                               !.routes = new.routes,
                               !.max_zone = new.max_zone,
                               !.incpt_year = new.incpt_year]
                  ELSE final_isochrones[i]]
           /\ pc' = IF missing = {} THEN After(pc) ELSE "KeyError"
    /\ trace' = Append(trace, pc)
    /\ UNCHANGED <<stop_vars, iso_fields, iso_exists, sa_vars, exited_at>>

\* SHAPE@AREA: the area the engine computes from a row's geometry
ShapeArea(geom) == geom.dist * geom.dist

get_iso_area ==
    /\ pc = "get_iso_area"
    /\ iso_fields' = iso_fields \cup {"area"}
    /\ final_isochrones' = [i \in 1..Len(final_isochrones) |->
           [final_isochrones[i] EXCEPT
               !.area = ShapeArea(final_isochrones[i].Shape)]]
    /\ Advance
    /\ UNCHANGED <<stop_vars, iso_exists, sa_vars, exited_at>>

(* --------------------------- specifications ---------------------------- *)

\* main()
Next ==
    \/ add_name_field
    \/ assign_max_zones
    \/ add_inception_year
    \/ create_isochrone_fc
    \/ main_generate
    \/ add_iso_attributes
    \/ get_iso_area

Spec == Init /\ [][Next]_vars

\* main() on one stop of any routes and zone
SpecYear == InitYear /\ [][Next]_vars

\* the pipeline with one generate_isochrones call per walk group
NextGroups ==
    \/ add_name_field
    \/ assign_max_zones
    \/ add_inception_year
    \/ create_isochrone_fc
    \/ group_generate
    \/ add_iso_attributes
    \/ get_iso_area

SpecGroups == InitGroups /\ [][NextGroups]_vars

(* ------------------------------ claims --------------------------------- *)

Executed(stage) == \E k \in 1..Len(trace) : trace[k] = stage

JustGenerated ==
    trace # <<>> /\ trace[Len(trace)] = "generate_isochrones"

\* the rows the latest generate_isochrones call inserted
Inserted ==
    SubSeq(final_isochrones, Len(last_call.before) + 1, Len(final_isochrones))

UniqueStopIds ==
    \A i, j \in 1..Len(max_stops) :
        max_stops[i].stop_id = max_stops[j].stop_id => i = j

\* C1: create_service_area runs exactly once, in the first
\* generate_isochrones call; before that call the three globals are None,
\* and from then on they hold the values that one execution assigned.
C1_ConfiguredOnce ==
    /\ calls = 0 =>
           /\ sa_created = 0
           /\ service_area_layer = None
           /\ sa_facilities = "None"
           /\ sa_isochrones = "None"
    /\ calls >= 1 =>
           /\ sa_created = 1
           /\ service_area_layer = 1
           /\ sa_facilities = "Facilities"
           /\ sa_isochrones = "Polygons"

C1_Witness == calls = MaxCalls /\ sa_created = 1

\* the years of the rules of the table that apply to a stop
RuleYears(rte_desc, zone) ==
    {y \in {1980, 1990, 1997, 1999, 2003, 2008} :
        \/ /\ y = 1980
           /\ "MAX Blue Line" \in rte_desc
           /\ zone \notin {"West Suburbs", "Southwest Portland"}
        \/ /\ y = 1990
           /\ "MAX Blue Line" \in rte_desc
           /\ zone \in {"West Suburbs", "Southwest Portland"}
        \/ y = 1997 /\ "MAX Red Line" \in rte_desc
        \/ /\ y = 1999
           /\ "MAX Yellow Line" \in rte_desc
           /\ zone # "Central Business District"
        \/ y = 2003 /\ "MAX Green Line" \in rte_desc
        \/ y = 2008 /\ "MAX Orange Line" \in rte_desc}

\* C2 as stated: the run exits only on a stop that names none of the five
\* MAX lines, and every stop the cursor reaches that names one of them is
\* assigned a year, whatever its zone.
C2_ExitOnlyNoLine ==
    /\ exited_at # 0 => max_stops[exited_at].route_desc \cap MaxLines = {}
    /\ Executed("add_inception_year") =>
           \A i \in 1..Len(max_stops) :
               /\ max_stops[i].route_desc \cap MaxLines # {}
               /\ exited_at = 0 \/ i < exited_at
               => max_stops[i].incpt_year # 0

\* C2 amended: the run exits only on a stop to which no rule applies, one
\* that names none of the Blue, Red, Green and Orange lines and either does
\* not name the Yellow line or lies in the Central Business District; every
\* other stop the cursor reaches is assigned a year.
C2_ExitOnlyNoRule ==
    /\ exited_at # 0 =>
           LET row == max_stops[exited_at]
           IN  /\ row.route_desc \cap {"MAX Blue Line", "MAX Red Line",
                      "MAX Green Line", "MAX Orange Line"} = {}
               /\ \/ "MAX Yellow Line" \notin row.route_desc
                  \/ row.max_zone = "Central Business District"
    /\ Executed("add_inception_year") =>
           \A i \in 1..Len(max_stops) :
               /\ \/ max_stops[i].route_desc \cap {"MAX Blue Line",
                          "MAX Red Line", "MAX Green Line",
                          "MAX Orange Line"} # {}
                  \/ /\ "MAX Yellow Line" \in max_stops[i].route_desc
                     /\ max_stops[i].max_zone # "Central Business District"
               /\ exited_at = 0 \/ i < exited_at
               => max_stops[i].incpt_year # 0

C2_Witness ==
    /\ pc = "exited"
    /\ "MAX Yellow Line" \in max_stops[exited_at].route_desc
    /\ max_stops[exited_at].max_zone = "Central Business District"

\* C3: a stop that has been assigned a year has the least of the years of
\* the rules that apply to its route description and zone.
C3_OldestLine ==
    \A i \in 1..Len(max_stops) :
        max_stops[i].incpt_year # 0 =>
            LET years == RuleYears(max_stops[i].route_desc,
                                   max_stops[i].max_zone)
            IN  /\ max_stops[i].incpt_year \in years
                /\ \A y \in years : max_stops[i].incpt_year <= y

C3_Witness ==
    \E i \in 1..Len(max_stops) :
        /\ max_stops[i].route_desc =
               {"MAX Red Line", "MAX Yellow Line", "MAX Orange Line"}
        /\ max_stops[i].max_zone = "Eastside"
        /\ max_stops[i].incpt_year = 1997

\* C4: the stages run in main's order, each at most once, and all seven
\* have run when main is done; so zones are set when years are decided, the
\* output dataset exists when it holds rows, and rows are there before
\* attributes and areas are written.
C4_StageOrder ==
    LET order == <<"add_name_field", "assign_max_zones",
                   "add_inception_year", "create_isochrone_fc",
                   "generate_isochrones", "add_iso_attributes",
                   "get_iso_area">>
    IN  /\ Len(trace) <= Len(order)
        /\ trace = SubSeq(order, 1, Len(trace))
        /\ pc = "done" => trace = order
        /\ pc \notin {"done", "exited"} => pc = order[Len(trace) + 1]
        /\ Executed("add_inception_year") =>
               \A i \in 1..Len(max_stops) :
                   \E z \in 1..Len(ZoneRows) :
                       max_stops[i].max_zone = ZoneRows[z]
        /\ final_isochrones # <<>> => iso_exists
        /\ Executed("add_iso_attributes") \/ "area" \in iso_fields =>
               /\ calls = 1
               /\ Len(final_isochrones) = Len(na_layer.polygons)

C4_Witness == pc = "done" /\ Len(final_isochrones) = MaxStops

\* s without its leading and trailing whitespace, said without recursion
IsStripped(t, s) ==
    \E a \in 1..(Len(s) + 1), b \in 0..Len(s) :
        /\ t = SubSeq(s, a, b)
        /\ \A k \in 1..Len(s) : k < a \/ k > b => s[k] \in Whitespace
        /\ t # <<>> => t[1] \notin Whitespace /\ t[Len(t)] \notin Whitespace

\* C5: once add_iso_attributes has run, every output row carries the name,
\* stripped routes, zone and year of the stop with its stop_id (the last
\* such stop in cursor order); the action changes no row's stop_id,
\* geometry or walk_dist and adds or removes no row.
C5_AttributesCopied ==
    /\ [](Executed("add_iso_attributes") =>
           \A k \in 1..Len(final_isochrones) :
               \E i \in 1..Len(max_stops) :
                   /\ max_stops[i].stop_id = final_isochrones[k].stop_id
                   /\ \A j \in 1..Len(max_stops) :
                          max_stops[j].stop_id = max_stops[i].stop_id
                              => j <= i
                   /\ final_isochrones[k].stop_name = max_stops[i].stop_name
                   /\ IsStripped(final_isochrones[k].routes,
                                 max_stops[i].routes)
                   /\ final_isochrones[k].max_zone = max_stops[i].max_zone
                   /\ final_isochrones[k].incpt_year
                          = max_stops[i].incpt_year)
    /\ [][pc = "add_iso_attributes" =>
           /\ Len(final_isochrones') = Len(final_isochrones)
           /\ \A k \in 1..Len(final_isochrones) :
                  /\ final_isochrones'[k].stop_id
                         = final_isochrones[k].stop_id
                  /\ final_isochrones'[k].Shape = final_isochrones[k].Shape
                  /\ final_isochrones'[k].walk_dist
                         = final_isochrones[k].walk_dist]_vars

C5_Witness ==
    /\ pc = "done"
    /\ \E k \in 1..Len(final_isochrones) :
           /\ final_isochrones[k].stop_name = "Pioneer Sq"
           /\ final_isochrones[k].routes = <<"9", "0", " ", "1">>
           /\ final_isochrones[k].incpt_year = 1980

\* C6: right after a generate_isochrones call the output holds the rows it
\* held before, unchanged, followed by one row per solver polygon, in
\* order; a polygon named '<id> : 0 - <break>' gives a row with stop_id
\* <id> and walk_dist <break>.
C6_OneRowPerPolygon ==
    JustGenerated =>
        /\ Len(final_isochrones)
               = Len(last_call.before) + Len(na_layer.polygons)
        /\ SubSeq(final_isochrones, 1, Len(last_call.before))
               = last_call.before
        /\ \A k \in 1..Len(na_layer.polygons) :
               /\ Inserted[k].Shape = na_layer.polygons[k].Shape
               /\ \E id \in 0..20, b \in BreakValues :
                      /\ na_layer.polygons[k].name
                             = ToStr(id) \o <<" ", ":", " ", "0", " ", "-",
                                   " ">> \o ToStr(b)
                      /\ Inserted[k].stop_id = id
                      /\ Inserted[k].walk_dist = b

C6_Witness ==
    /\ JustGenerated
    /\ last_call.before # <<>>
    /\ \E k \in 1..Len(na_layer.polygons) :
           /\ na_layer.polygons[k].name
                  = <<"1", "3", " ", ":", " ", "0", " ", "-", " ",
                      "3", "3", "0", "0">>
           /\ Inserted[k].stop_id = 13
           /\ Inserted[k].walk_dist = 3300

\* C7 as stated: when the stops have distinct stop_ids, the output never
\* holds two rows with the same stop_id.
C7_OneRowPerStop ==
    UniqueStopIds =>
        \A i, j \in 1..Len(final_isochrones) :
            final_isochrones[i].stop_id = final_isochrones[j].stop_id
                => i = j

\* C8: add_name_field sets every stop's name to its stop_id and changes
\* nothing else, so names are unique when stop_ids are; and the stop_id of
\* an inserted row is that of the stop the polygon's facility was loaded
\* from.
C8_NameIsStopId ==
    /\ [](Executed("add_name_field") =>
           /\ \A i \in 1..Len(max_stops) :
                  max_stops[i].name = max_stops[i].stop_id
           /\ UniqueStopIds =>
                  \A i, j \in 1..Len(max_stops) :
                      max_stops[i].name = max_stops[j].name => i = j)
    /\ [](JustGenerated =>
           \A k \in 1..Len(na_layer.polygons) :
               Inserted[k].stop_id =
                   last_call.locations[na_layer.polygons[k].FacilityID]
                       .stop_id)
    /\ [][pc = "add_name_field" =>
           /\ Len(max_stops') = Len(max_stops)
           /\ \A i \in 1..Len(max_stops) :
                  \A f \in {"stop_id", "stop_name", "routes", "route_desc",
                            "Shape", "max_zone", "incpt_year"} :
                      max_stops'[i][f] = max_stops[i][f]]_vars

C8_Witness ==
    /\ JustGenerated
    /\ Len(max_stops) = MaxStops
    /\ UniqueStopIds
    /\ Len(na_layer.polygons) = MaxStops

\* C9: when add_inception_year exits on a stop the run is over: that stop
\* and the later ones have no year, the earlier ones have theirs, no later
\* stage has run and the output dataset does not exist.
C9_ExitStopsRun ==
    exited_at # 0 =>
        /\ pc = "exited"
        /\ \A i \in 1..Len(max_stops) :
               /\ i >= exited_at => max_stops[i].incpt_year = 0
               /\ i < exited_at =>
                      max_stops[i].incpt_year
                          \in {1980, 1990, 1997, 1999, 2003, 2008}
        /\ trace = <<"add_name_field", "assign_max_zones",
                     "add_inception_year">>
        /\ ~iso_exists
        /\ iso_fields = {}
        /\ final_isochrones = <<>>
        /\ calls = 0

C9_Witness ==
    /\ pc = "exited"
    /\ exited_at = 2
    /\ max_stops[1].incpt_year = 1980

\* C10: right after a generate_isochrones call the layer's facilities are
\* that call's locations and its break is that call's break_value; every
\* row the call inserted comes from a facility of that call's locations,
\* has that stop's stop_id and position, and that call's break_value as
\* walk_dist.
C10_OnlyThisCall ==
    JustGenerated =>
        /\ Len(na_layer.facilities) = Len(last_call.locations)
        /\ na_layer.defaultBreaks = last_call.break_value
        /\ Len(Inserted) <= Len(last_call.locations)
        /\ \A k \in 1..Len(Inserted) :
               /\ Inserted[k].walk_dist = last_call.break_value
               /\ \E i \in 1..Len(last_call.locations) :
                      /\ last_call.locations[i].stop_id = Inserted[k].stop_id
                      /\ last_call.locations[i].Shape
                             = Inserted[k].Shape.around
        /\ \A k, l \in 1..Len(na_layer.polygons) :
               na_layer.polygons[k].FacilityID
                   = na_layer.polygons[l].FacilityID => k = l

C10_Witness ==
    /\ JustGenerated
    /\ calls = 2
    /\ last_call.before # <<>>
    /\ Inserted # <<>>
    /\ \A i \in 1..Len(last_call.locations) :
           /\ last_call.locations[i].stop_id # last_call.before[1].stop_id
           /\ last_call.locations[i].Shape
                  # last_call.before[1].Shape.around
    /\ last_call.before[1].walk_dist # last_call.break_value

====
